---- MODULE Spec2Model ----
(***************************************************************************)
(* Model of state_machine.py: the YAML-driven state-machine runner.        *)
(*                                                                         *)
(* A session (class StateMachine) is the four fields cur, stack, ctx and   *)
(* pending_error.  step(event) is modelled one loop iteration at a time:   *)
(* Call binds the argument, then each iteration of `while self.cur`        *)
(* dispatches on the type of the current state until the call returns a    *)
(* payload or raises.  The caller sees input (the argument it passed),     *)
(* result (what the call returned or raised) and prev (what the call       *)
(* before it returned or raised).                                          *)
(*                                                                         *)
(* flows is the one part of the loaded flow definition that the runner     *)
(* takes pieces of (the member lists of the sub-flows, Python lists shared *)
(* by every session of the process); other is a second session of the same *)
(* process while the first one runs, or the mark that there is none.       *)
(*                                                                         *)
(* The flow definition (states.yaml / transitions.yaml, loaded into STATES *)
(* and TRANS at import) is not part of the sources; STATES and TRANS below *)
(* are a login flow in the vocabulary of the demo block of the source,     *)
(* with every state type and every edge shape the runner distinguishes.    *)
(***************************************************************************)
EXTENDS Naturals, Sequences, FiniteSets, TLC

VARIABLES cur, stack, ctx, pending_error, pc, event, input, result, prev,
          flows, other

session == <<cur, stack, ctx, pending_error>>
vars == <<cur, stack, ctx, pending_error, pc, event, input, result, prev,
          flows, other>>

\* Bound on the depth of the sub-flow stack (frames are pushed, never popped,
\* by step, so the stack grows without limit in the program).
MaxStack == 3

\* Python's None.
None == "None"

----------------------------------------------------------------------------
\* str(v).lower() on the texts that occur in contexts and patches.
Lower(s) ==
    CASE s = "SSO"            -> "sso"
      [] s = "Exact"          -> "exact"
      [] s = "Multiple"       -> "multiple"
      [] s = "YES"            -> "yes"
      [] s = "Login_Method"   -> "login_method"
      [] s = "Resolver_Match" -> "resolver_match"
      [] OTHER                -> s

----------------------------------------------------------------------------
\* The flow definition.

\* A bare edge `key: target`.
Bare(t) == [found |-> TRUE, dict |-> FALSE, target |-> t, error_id |-> None,
            set_context |-> <<>>]
\* A descriptor edge `key: {target, error_id, set_context}`; an absent field
\* is None (target, error_id) or the empty patch (set_context).
Desc(t, e, p) == [found |-> TRUE, dict |-> TRUE, target |-> t, error_id |-> e,
                  set_context |-> p]
\* No entry for the key.
NoEdge == [found |-> FALSE, dict |-> FALSE, target |-> None, error_id |-> None,
           set_context |-> <<>>]

EmptyFlow == <<>>

Switch(expr) == [type |-> "switch", expression |-> expr, interface |-> None,
                 cs_contact |-> FALSE, flow |-> EmptyFlow]
ActionState(cs) == [type |-> "action", expression |-> None, interface |-> None,
                    cs_contact |-> cs, flow |-> EmptyFlow]
SubFlow(seq) == [type |-> "sub-flow", expression |-> None, interface |-> None,
                 cs_contact |-> FALSE, flow |-> seq]
View(iface, cs) == [type |-> "view", expression |-> None, interface |-> iface,
                    cs_contact |-> cs, flow |-> EmptyFlow]
Other(t) == [type |-> t, expression |-> None, interface |-> None,
             cs_contact |-> FALSE, flow |-> EmptyFlow]

STATES ==
       ("resolver_branch"       :> Switch("resolver_match"))
    @@ ("UsernameEntryView"     :> View("username_entry", FALSE))
    @@ ("resolveUsernameAction" :> ActionState(FALSE))
    @@ ("login_branch"          :> Switch("login_method"))
    @@ ("password_flow"         :> SubFlow(<<"PasswordEntryView",
                                             "verifyPasswordAction",
                                             "LoggedInView">>))
    @@ ("PasswordEntryView"     :> View("password_entry", FALSE))
    @@ ("verifyPasswordAction"  :> ActionState(TRUE))
    @@ ("LoggedInView"          :> View("logged_in", FALSE))
    @@ ("sso_flow"              :> SubFlow(<<"SSORedirectView">>))
    @@ ("SSORedirectView"       :> View("sso_redirect", FALSE))
    @@ ("sendResetAction"       :> ActionState(FALSE))
    @@ ("AccountLockedView"     :> View("account_locked", TRUE))
    @@ ("legacyState"           :> Other("redirect"))
    @@ ("retry_branch"          :> Switch("resolver_match"))
    @@ ("unlock_flow"           :> SubFlow(EmptyFlow))

TRANS ==
       ("resolver_branch" :>
            (   ("exact"    :> Bare("login_branch"))
             @@ ("multiple" :> Desc("UsernameEntryView", "multiple_accounts", <<>>))
             @@ ("none"     :> Bare("UsernameEntryView"))
             @@ ("loop"     :> Bare("retry_branch"))))
    @@ ("retry_branch" :>
            (   ("loop"     :> Bare("resolver_branch"))))
    @@ ("UsernameEntryView" :>
            (   ("submitUsername" :> Bare("resolveUsernameAction"))
             @@ ("help"           :> Desc(None, "help_unavailable", <<>>))))
    @@ ("resolveUsernameAction" :>
            (   ("exact"    :> Desc("login_branch", None,
                                    << <<"resolver_match", "exact">> >>))
             @@ ("none"     :> Desc("UsernameEntryView", "unknown_user", <<>>))
             @@ ("multiple" :> Desc("resolver_branch", "multiple_accounts",
                                    << <<"Resolver_Match", "Multiple">> >>))))
    @@ ("login_branch" :>
            (   ("password" :> Bare("password_flow"))
             @@ ("sso"      :> Bare("sso_flow"))))
    @@ ("PasswordEntryView" :>
            (   ("submitPassword" :> Bare("verifyPasswordAction"))
             @@ ("forgotPassword" :> Desc("sendResetAction", "reset_requested", <<>>))))
    @@ ("sendResetAction" :>
            (   ("sent"    :> Bare("PasswordEntryView"))
             @@ ("failure" :> Desc("PasswordEntryView", None,
                                   << <<"login_method", "password">> >>))))
    @@ ("verifyPasswordAction" :>
            (   ("success" :> Bare("LoggedInView"))
             @@ ("failure" :> Desc("password_flow", "invalid_password", <<>>))
             @@ ("locked"  :> Desc("AccountLockedView", "account_locked", <<>>))))
    @@ ("SSORedirectView" :>
            (   ("continue"  :> Bare("LoggedInView"))
             @@ ("failure"   :> Desc("login_branch", "sso_failed",
                                     << <<"login_method", "password">> >>))
             @@ ("cancelled" :> Desc("UsernameEntryView", None, <<>>))))
    @@ ("AccountLockedView" :>
            (   ("contactSupport" :> Bare("legacyState"))
             @@ ("continue"       :> Bare("unlock_flow"))))

\* TRANS.get(state, {}).get(key)
TransGet(state, key) ==
    IF state \in DOMAIN TRANS /\ key \in DOMAIN TRANS[state]
    THEN TRANS[state][key]
    ELSE NoEdge

----------------------------------------------------------------------------
\* What step can be called with: nothing, an event key, or a rich event
\* {type, context}.  A context is a dict, written as the sequence of its
\* (key, value) items in insertion order.
NoEvent == [kind |-> "none", type |-> None, context |-> <<>>]
KeyEvent(k) == [kind |-> "key", type |-> k, context |-> <<>>]
RichEvent(t, c) == [kind |-> "rich", type |-> t, context |-> c]

EventKeys == {"submitUsername", "help", "exact", "none", "multiple",
              "submitPassword", "forgotPassword", "sent", "failure",
              "success", "locked", "continue", "cancelled",
              "contactSupport", "bogus"}

RichEvents == {RichEvent("exact", << <<"flight_access", "yes">> >>),
               RichEvent("none", << <<"Login_Method", "SSO">> >>),
               RichEvent("success", << <<"flight_access", "YES">> >>)}

Inputs == {NoEvent} \cup {KeyEvent(k) : k \in EventKeys} \cup RichEvents

\* The dicts the constructor is called with.
InitialContexts ==
    { ("resolver_match" :> "exact") @@ ("login_method" :> "password"),
      ("resolver_match" :> "Exact") @@ ("login_method" :> "SSO"),
      ("resolver_match" :> "none"),
      ("resolver_match" :> "multiple") @@ ("Login_Method" :> "SSO"),
      ("resolver_match" :> "loop"),
      ("resolver_match" :> "exact") @@ ("login_method" :> "otp"),
      [k \in {} |-> None] }

----------------------------------------------------------------------------
\* What a call hands back to its caller.
NoResult == [kind |-> "none", payload |-> <<>>, msg |-> None]
Returned(p) == [kind |-> "payload", payload |-> p, msg |-> None]
Raised(m) == [kind |-> "raise", payload |-> <<>>, msg |-> m]
FinishedResult == [kind |-> "finished", payload |-> <<>>, msg |-> None]

----------------------------------------------------------------------------
\* Helpers of StateMachine.

\* __init__: values are lowercased, keys are kept as given.
InitCtx(raw) == [k \in DOMAIN raw |-> Lower(raw[k])]

\* Faulty variant of _next: a bare edge yields the looked-up key instead of
\* the entry.
_next_returns_key(state, key, pe) ==
    LET ent == TransGet(state, key) IN
    IF ent.found /\ ent.dict
    THEN [target |-> ent.target, set_context |-> ent.set_context,
          pending_error |-> ent.error_id]
    ELSE IF ent.found
    THEN [target |-> key, set_context |-> <<>>, pending_error |-> pe]
    ELSE [target |-> None, set_context |-> <<>>, pending_error |-> pe]

\* Faulty variant of _next: a bare edge clears the pending error tag.
_next_bare_clears(state, key, pe) ==
    LET ent == TransGet(state, key) IN
    IF ent.found /\ ent.dict
    THEN [target |-> ent.target, set_context |-> ent.set_context,
          pending_error |-> ent.error_id]
    ELSE IF ent.found
    THEN [target |-> ent.target, set_context |-> <<>>, pending_error |-> None]
    ELSE [target |-> None, set_context |-> <<>>, pending_error |-> pe]

\* Faulty variant of _next: a key without an entry leaves the session where
\* it is (the state itself is the target).
_next_miss_stays(state, key, pe) ==
    LET ent == TransGet(state, key) IN
    IF ent.found /\ ent.dict
    THEN [target |-> ent.target, set_context |-> ent.set_context,
          pending_error |-> ent.error_id]
    ELSE IF ent.found
    THEN [target |-> ent.target, set_context |-> <<>>, pending_error |-> pe]
    ELSE [target |-> state, set_context |-> <<>>, pending_error |-> pe]

\* _next(state, key), with pe the pending error tag at the call: the target and
\* the set_context of the edge, and the pending error tag _next leaves behind
\* (a descriptor edge overwrites it with its error_id, present or not).
_next(state, key, pe) ==
    LET ent == TransGet(state, key) IN
    IF ent.found /\ ent.dict
    THEN [target |-> ent.target, set_context |-> ent.set_context,
          pending_error |-> ent.error_id]
    ELSE IF ent.found
    THEN [target |-> ent.target, set_context |-> <<>>, pending_error |-> pe]
    ELSE [target |-> None, set_context |-> <<>>, pending_error |-> pe]

\* Faulty variant of SetItem: the context is rebuilt from the written item.
SetItemReplace(c, k, v) == (Lower(k) :> Lower(v))

\* One assignment self.ctx[str(k).lower()] = str(v).lower().
SetItem(c, k, v) ==
    [x \in DOMAIN c \cup {Lower(k)} |-> IF x = Lower(k) THEN Lower(v) ELSE c[x]]

\* _apply_context_updates(context_updates) on context c: the items are written
\* in order; an empty or absent patch writes nothing.
RECURSIVE _apply_context_updates(_, _)
_apply_context_updates(c, updates) ==
    IF updates = <<>>
    THEN c
    ELSE _apply_context_updates(SetItem(c, Head(updates)[1], Head(updates)[2]),
                                Tail(updates))

\* The payload of an action that waits for its event.
ActionPayload(state) ==
    LET base == ("state_id" :> state) @@ ("action" :> TRUE) IN
    IF STATES[state].cs_contact THEN base @@ ("cs_contact" :> TRUE) ELSE base

\* Faulty variant of ViewPayload: the pending error tag is left out.
ViewPayloadNoError(state, pe) ==
    LET base == ("state_id" :> state) @@ ("interface" :> STATES[state].interface)
    IN IF STATES[state].cs_contact THEN base @@ ("cs_contact" :> TRUE) ELSE base

\* The payload of a view, with pe the pending error tag when it is rendered.
ViewPayload(state, pe) ==
    LET base == ("state_id" :> state) @@ ("interface" :> STATES[state].interface)
        err  == IF pe # None THEN base @@ ("error_id" :> pe) ELSE base
    IN IF STATES[state].cs_contact THEN err @@ ("cs_contact" :> TRUE) ELSE err

\* Faulty variant of PendingAfterSwitch: the tag _next left is kept.
PendingAfterSwitchKept(pe) == pe

\* The pending error tag after a switch has moved to its target:
\* `self.cur, self.pending_error = nxt, None`.
PendingAfterSwitch(pe) == None

\* Faulty variant of PendingAfterRender: the tag is not cleared.
PendingKept(pe) == pe

\* The pending error tag after a view has been rendered.
PendingAfterRender(pe) == IF pe # None THEN None ELSE pe

----------------------------------------------------------------------------
\* The member lists STATES[s]["flow"] as loaded.
SubflowIds == {s \in DOMAIN STATES : STATES[s].type = "sub-flow"}
MemberLists == [s \in SubflowIds |-> STATES[s].flow]

\* A session and its caller's view of it, as one value.
Parked(c, st, cx, pe, p, ev, inp, res, prv) ==
    [cur |-> c, stack |-> st, ctx |-> cx, pending_error |-> pe, pc |-> p,
     event |-> ev, input |-> inp, result |-> res, prev |-> prv]
\* The session that is running.
Self == Parked(cur, stack, ctx, pending_error, pc, event, input, result, prev)
\* There is no second session.
NoOther == Parked(None, <<>>, <<>>, None, "absent", NoEvent, NoEvent,
                  NoResult, NoResult)

\* The session after construction; no call has been made.
Init ==
    /\ flows = MemberLists
    /\ other = NoOther
    /\ \E raw \in InitialContexts : ctx = InitCtx(raw)
    /\ cur = "resolver_branch"
    /\ stack = <<>>
    /\ pending_error = None
    /\ pc = "idle"
    /\ event = NoEvent
    /\ input = NoEvent
    /\ result = NoResult
    /\ prev = NoResult

\* The call returns payload p, or raises m: the frame of step is gone.
Return(p) == pc' = "idle" /\ event' = NoEvent /\ result' = Returned(p)
Raise(m) == pc' = "idle" /\ event' = NoEvent /\ result' = Raised(m)
\* Faulty variant of Continue: the event is kept for the next iteration.
ContinueKeepsEvent == pc' = "loop" /\ event' = event /\ result' = result
\* `event = None; continue`
Continue == pc' = "loop" /\ event' = NoEvent /\ result' = result

\* Faulty variant of Call: every call starts by dropping the pending error tag.
CallReset(e) ==
    /\ pc = "idle"
    /\ pc' = "loop"
    /\ event' = e
    /\ input' = e
    /\ prev' = result
    /\ pending_error' = None
    /\ UNCHANGED <<cur, stack, ctx, result>>
    /\ UNCHANGED <<flows, other>>

\* step(e) is called.
Call(e) ==
    /\ pc = "idle"
    /\ pc' = "loop"
    /\ event' = e
    /\ input' = e
    /\ prev' = result
    /\ UNCHANGED <<cur, stack, ctx, pending_error, result>>
    /\ UNCHANGED <<flows, other>>

\* The guard of every iteration: `while self.cur`.
InLoop == pc = "loop" /\ cur # None

\* One iteration at a switch state.
SwitchIter ==
    /\ InLoop /\ STATES[cur].type = "switch"
    /\ LET expr == STATES[cur].expression
           val  == IF expr \in DOMAIN ctx THEN ctx[expr] ELSE None
           n    == _next(cur, val, pending_error)
       IN /\ ctx' = _apply_context_updates(ctx, n.set_context)
          /\ IF n.target = None
             THEN /\ Raise("No edge for value from switch")
                  /\ pending_error' = n.pending_error
                  /\ cur' = cur
             ELSE /\ cur' = n.target
                  /\ pending_error' = PendingAfterSwitch(n.pending_error)
                  /\ Continue
    /\ UNCHANGED <<stack, input, prev>>
    /\ UNCHANGED <<flows, other>>

\* The event key an action looks up, and the context it looks it up in: only
\* resolveUsernameAction unpacks a rich event.
ActionIter ==
    /\ InLoop /\ STATES[cur].type = "action"
    /\ IF event.kind = "none"
       THEN /\ Return(ActionPayload(cur))
            /\ UNCHANGED <<cur, ctx, pending_error>>
       ELSE IF event.kind = "rich" /\ cur # "resolveUsernameAction"
       THEN \* _next hashes the dict: TypeError, nothing written
            /\ Raise("TypeError: unhashable type")
            /\ UNCHANGED <<cur, ctx, pending_error>>
       ELSE LET ctx1 == IF event.kind = "rich"
                        THEN _apply_context_updates(ctx, event.context)
                        ELSE ctx
                n    == _next(cur, event.type, pending_error)
            IN /\ ctx' = _apply_context_updates(ctx1, n.set_context)
               /\ pending_error' = n.pending_error
               /\ IF n.target = None
                  THEN Raise("No edge for action") /\ cur' = cur
                  ELSE Continue /\ cur' = n.target
    /\ UNCHANGED <<stack, input, prev>>
    /\ UNCHANGED <<flows, other>>

\* seq[1:]
SliceFrom1(seq) == IF seq = <<>> THEN <<>> ELSE Tail(seq)

\* Faulty variant of _enter_subflow: the first member is popped off the
\* member list of the flow definition (cur = seq.pop(0)) and the frame holds
\* what is left.
_enter_subflow_pops ==
    LET seq == flows[cur] IN
    /\ stack' = Append(stack, [sub |-> cur, rest |-> SliceFrom1(seq)])
    /\ cur' = IF seq = <<>> THEN cur ELSE Head(seq)
    /\ flows' = [flows EXCEPT ![cur] = SliceFrom1(seq)]

\* _enter_subflow(self.cur): the frame is appended first, then seq[0] is
\* read; on an empty member list that read raises IndexError and cur keeps
\* its value, with the frame already on the stack.  The frame holds a copy
\* (seq[1:]); the member list itself is only read.
_enter_subflow ==
    LET seq == flows[cur] IN
    /\ stack' = Append(stack, [sub |-> cur, rest |-> SliceFrom1(seq)])
    /\ cur' = IF seq = <<>> THEN cur ELSE Head(seq)
    /\ flows' = flows

\* One iteration at a sub-flow state: _enter_subflow(self.cur) followed by
\* `event = None; continue`, unless _enter_subflow raised.
SubflowIter ==
    /\ InLoop /\ STATES[cur].type = "sub-flow"
    /\ Len(stack) < MaxStack
    /\ _enter_subflow
    /\ IF flows[cur] = <<>>
       THEN Raise("IndexError: list index out of range")
       ELSE Continue
    /\ UNCHANGED <<ctx, pending_error, input, prev>>
    /\ UNCHANGED other

\* Faulty variant of ViewMiss: an event without a target is ignored and the
\* view is rendered again.
ViewMissRerender(pe) ==
    /\ Return(ViewPayload(cur, pe))
    /\ cur' = cur

\* The else branch of the view: the event has no target.  Both of its paths
\* raise; pe is the pending error tag _next left behind.
ViewMiss(pe) ==
    /\ IF pe = None
       THEN Raise("No event defined for view and no error transition found")
       ELSE Raise("No event defined for view")
    /\ cur' = cur

\* One iteration at a view state.
ViewIter ==
    /\ InLoop /\ STATES[cur].type = "view"
    /\ LET payload == ViewPayload(cur, pending_error)
           pe1     == PendingAfterRender(pending_error)
       IN IF event.kind = "none"
          THEN /\ Return(payload)
               /\ pending_error' = pe1
               /\ UNCHANGED <<cur, ctx>>
          ELSE IF event.kind = "rich"
          THEN /\ Raise("TypeError: unhashable type")
               /\ pending_error' = pe1
               /\ UNCHANGED <<cur, ctx>>
          ELSE LET n == _next(cur, event.type, pe1)
               IN /\ ctx' = _apply_context_updates(ctx, n.set_context)
                  /\ pending_error' = n.pending_error
                  /\ IF n.target # None
                     THEN Continue /\ cur' = n.target
                     ELSE ViewMiss(n.pending_error)
    /\ UNCHANGED <<stack, input, prev>>
    /\ UNCHANGED <<flows, other>>

\* A state whose type is none of the four.
UnknownType ==
    /\ InLoop
    /\ STATES[cur].type \notin {"switch", "action", "sub-flow", "view"}
    /\ Raise("Unknown state type")
    /\ UNCHANGED <<cur, stack, ctx, pending_error, input, prev>>
    /\ UNCHANGED <<flows, other>>

\* The loop is left because there is no current state: step returns None.
Finished ==
    /\ pc = "loop" /\ cur = None
    /\ pc' = "idle" /\ event' = NoEvent /\ result' = FinishedResult
    /\ UNCHANGED <<cur, stack, ctx, pending_error, input, prev>>
    /\ UNCHANGED <<flows, other>>

Step == \E e \in Inputs : Call(e)

\* step never reaches Finished from a constructed session (nothing in step
\* sets cur to None), so it is not a disjunct here.
Next ==
    \/ Step
    \/ SwitchIter
    \/ ActionIter
    \/ SubflowIter
    \/ ViewIter
    \/ UnknownType

Spec == Init /\ [][Next]_vars

----------------------------------------------------------------------------
\* Vocabulary of the properties.

StateType(s) == STATES[s].type
Top == stack[Len(stack)]
Members(sub) == {STATES[sub].flow[i] : i \in DOMAIN STATES[sub].flow}
IndexIn(seq, s) == CHOOSE i \in DOMAIN seq : seq[i] = s

\* The session is between two calls and the last call returned a payload.
Suspended == pc = "idle" /\ result.kind = "payload"
IsViewPayload(r) == r.kind = "payload" /\ "interface" \in DOMAIN r.payload
HasErrorTag(r) == r.kind = "payload" /\ "error_id" \in DOMAIN r.payload
WithoutErrorTag(p) == [k \in DOMAIN p \ {"error_id"} |-> p[k]]

\* The call in progress (or the last one) is a probe: it was made with no
\* input while the session was suspended.
Probe == input.kind = "none" /\ prev.kind = "payload"

\* This iteration looks up an edge, and the edge it looks up.
LooksUp ==
    /\ pc = "loop" /\ cur # None
    /\ \/ StateType(cur) = "switch"
       \/ StateType(cur) \in {"action", "view"} /\ event.kind = "key"
       \/ cur = "resolveUsernameAction" /\ event.kind = "rich"
LookedUpKey ==
    IF StateType(cur) = "switch"
    THEN IF STATES[cur].expression \in DOMAIN ctx
         THEN ctx[STATES[cur].expression] ELSE None
    ELSE event.type
LookedUpEdge == TransGet(cur, LookedUpKey)
\* This iteration resolves an edge that has a target and an error tag.
ResolvesTagged ==
    /\ LooksUp
    /\ LookedUpEdge.found /\ LookedUpEdge.target # None
    /\ LookedUpEdge.dict /\ LookedUpEdge.error_id # None
\* The error tags of the descriptor edges that have no target: looking one up
\* sets the pending tag and raises.
TagsWithoutTarget ==
    LET keys  == UNION {DOMAIN TRANS[t] : t \in DOMAIN TRANS}
        pairs == {p \in (DOMAIN TRANS) \X keys :
                    /\ TransGet(p[1], p[2]).found
                    /\ TransGet(p[1], p[2]).target = None}
    IN {TransGet(p[1], p[2]).error_id : p \in pairs}
AtView == pc = "loop" /\ cur # None /\ StateType(cur) = "view"
AtSwitch == pc = "loop" /\ cur # None /\ StateType(cur) = "switch"
\* This iteration renders a view and suspends there.
SuspendsAtView == AtView /\ event.kind = "none"

----------------------------------------------------------------------------
\* C1: while a sub-flow frame is on top of the stack and the current state is
\* a member of that sub-flow, the next state the session moves to is the next
\* member of the sequence: the members are visited in order, on every entry.
C1_MembersVisitedInOrder ==
    [][ ( /\ pc = "loop" /\ stack # <<>> /\ cur' # cur
          /\ StateType(cur) # "sub-flow"
          /\ cur \in Members(Top.sub) )
        => LET seq == STATES[Top.sub].flow
               i   == IndexIn(seq, cur)
           IN i < Len(seq) => cur' = seq[i + 1] ]_vars

\* C2: between calls, a frame whose remaining members are exhausted is gone
\* once the current state is no longer a member of its sub-flow, and entering
\* a sub-flow again does not leave a second frame of it on the stack.
C2_ExhaustedFramesPopped ==
    pc = "idle" =>
        /\ (stack # <<>> /\ Top.rest = <<>>) => cur \in Members(Top.sub)
        /\ \A i, j \in DOMAIN stack : i # j => stack[i].sub # stack[j].sub

\* C3 as stated: a probe of a suspended session returns the payload the
\* session suspended with.
C3_ProbeReturnsSamePayload ==
    (pc = "idle" /\ Probe) => result = prev

\* C3 as amended: a probe of a suspended session returns the payload the
\* session suspended with, less its error tag; a payload without an error tag
\* is returned unchanged.
C3_ProbeReturnsPayloadWithoutTag ==
    (pc = "idle" /\ Probe) =>
        /\ result.kind = "payload"
        /\ result.payload = WithoutErrorTag(prev.payload)

\* A probe answered a payload that carried an error tag.
C3_Witness ==
    pc = "idle" /\ Probe /\ HasErrorTag(prev) /\ result.kind = "payload"

\* C4: a probe of a suspended session changes no session field: neither the
\* call nor its one iteration writes cur, stack, ctx or pending_error, and the
\* iteration returns.
C4_ProbeChangesNothing ==
    [][ /\ (Suspended /\ pc' = "loop" /\ input'.kind = "none")
            => UNCHANGED session
        /\ (pc = "loop" /\ Probe)
            => (pc' = "idle" /\ UNCHANGED session) ]_vars

\* A probe at an action left the pending error tag in place.
C4_Witness ==
    /\ pc = "idle" /\ Probe /\ result.kind = "payload"
    /\ StateType(cur) = "action" /\ pending_error # None

\* C5 as stated: the error tag of any resolved edge becomes the pending tag,
\* stays pending through every state that is not a view, and is in the
\* payload of the view at which the session suspends.
C5_TagReachesNextView ==
    [][ /\ ResolvesTagged => pending_error' = LookedUpEdge.error_id
        /\ (pending_error # None /\ ~AtView /\ ~ResolvesTagged)
            => pending_error' = pending_error
        /\ (SuspendsAtView /\ pending_error # None)
            => (HasErrorTag(result') /\ result'.payload.error_id = pending_error)
      ]_vars

\* C5 as amended: the error tag of a resolved edge of an action or view
\* becomes the pending tag; it stays pending until a switch is dispatched
\* (which drops it, with the tag of its own edge) or a descriptor edge is
\* looked up (which replaces it with its own tag or with none); a pending tag
\* is in the payload of the view at which the session suspends; and the only
\* tag a view can drop unshown (rendering while it consumes an event) is the
\* tag of an edge without target, left behind by the call that raised on it.
C5_TagReachesNextViewUnlessOverwritten ==
    [][ /\ (ResolvesTagged /\ ~AtSwitch)
            => pending_error' = LookedUpEdge.error_id
        /\ ( /\ pending_error # None /\ ~AtView /\ ~AtSwitch
             /\ ~(LooksUp /\ LookedUpEdge.dict) )
            => pending_error' = pending_error
        /\ (SuspendsAtView /\ pending_error # None)
            => (HasErrorTag(result') /\ result'.payload.error_id = pending_error)
        /\ (AtView /\ ~SuspendsAtView /\ pending_error # None)
            => pending_error \in TagsWithoutTarget
      ]_vars

\* The tag of a view's edge crossed a suspended action and a bare edge and was
\* shown by the next view.
C5_Witness ==
    /\ pc = "idle" /\ cur = "PasswordEntryView"
    /\ HasErrorTag(result) /\ result.payload.error_id = "reset_requested"

\* C6: when a call has returned a view payload, no error tag is pending.
C6_NoPendingAfterView ==
    (pc = "idle" /\ IsViewPayload(result)) => pending_error = None

\* A call returned a view payload that carries an error tag.
C6_Witness ==
    pc = "idle" /\ IsViewPayload(result) /\ HasErrorTag(result)

\* C7: every key and every value of the context is lowercase.
C7_ContextLowercase ==
    \A k \in DOMAIN ctx : Lower(k) = k /\ Lower(ctx[k]) = ctx[k]

\* C8: no step removes a key from the context.
C8_KeysNeverRemoved ==
    [][DOMAIN ctx \subseteq DOMAIN ctx']_vars

\* A rich event added a key that the initial context did not have, and the
\* keys written before it are still there.
C8_Witness ==
    /\ pc = "idle"
    /\ "flight_access" \in DOMAIN ctx /\ "resolver_match" \in DOMAIN ctx

\* C9: the current state is absent or a state of the flow definition.
C9_CurrentStateExists ==
    cur = None \/ cur \in DOMAIN STATES

\* The session has moved through switches, a sub-flow entry and edges.
C9_Witness ==
    pc = "idle" /\ cur = "LoggedInView" /\ Len(stack) = 2

\* C10: an iteration at an action or view that is offered an event key with
\* no edge from that state raises (the action's error at an action, the
\* view's error at a view); it returns neither a payload nor finished.
C10_UnknownEventRaises ==
    [][ ( /\ pc = "loop" /\ cur # None /\ event.kind = "key"
          /\ StateType(cur) \in {"action", "view"}
          /\ ~TransGet(cur, event.type).found )
        => ( /\ pc' = "idle"
             /\ result'.kind = "raise"
             /\ result'.msg =
                  IF StateType(cur) = "action"
                  THEN "No edge for action"
                  ELSE "No event defined for view and no error transition found" )
      ]_vars

\* A call with an event key that has no edge from the current action raised.
C10_Witness ==
    /\ pc = "idle" /\ result.kind = "raise" /\ input.kind = "key"
    /\ StateType(cur) = "action" /\ ~TransGet(cur, input.type).found

----------------------------------------------------------------------------
\* C11: an iteration at any action state that is offered a rich event
\* {type, context} merges the event's context into the context (normalized)
\* and then looks up the edge for the event's type: the context afterwards is
\* the merged context with the edge's patch applied, the session moves to the
\* edge's target, and without a target the action's own error is raised.
C11_RichEventMergedThenLookedUp ==
    [][ ( /\ pc = "loop" /\ cur # None /\ StateType(cur) = "action"
          /\ event.kind = "rich" )
        => LET merged == _apply_context_updates(ctx, event.context)
               n      == _next(cur, event.type, pending_error)
           IN /\ ctx' = _apply_context_updates(merged, n.set_context)
              /\ IF n.target # None
                 THEN cur' = n.target /\ pc' = "loop"
                 ELSE /\ cur' = cur /\ pc' = "idle"
                      /\ result' = Raised("No edge for action")
      ]_vars

----------------------------------------------------------------------------
\* Construction as a call of its own: StateMachine(ctx, output_stream,
\* initial_state = ...) as the test driver calls it.

\* The keyword argument is not passed.
NotPassed == "NotPassed"
\* What the test driver passes as initial_state: nothing, None (the scenario
\* names no initial state) or a state id.
StartArgs == {NotPassed, None, "PasswordEntryView", "login_branch"}
NewCall(start) == [kind |-> "new", type |-> start, context |-> <<>>]

\* No session has been constructed.
NoSession ==
    /\ cur = None /\ stack = <<>> /\ ctx = <<>> /\ pending_error = None
    /\ pc = "new"
    /\ flows = MemberLists /\ other = NoOther
    /\ event = NoEvent /\ input = NoEvent
    /\ result = NoResult /\ prev = NoResult

\* StateMachine(raw, output_stream[, initial_state = start]): __init__ takes
\* ctx and output_stream only, so a call that passes initial_state raises
\* TypeError before the body runs and there is no session.
__init__(raw, start) ==
    /\ pc = "new"
    /\ input' = NewCall(start)
    /\ IF start = NotPassed
       THEN /\ ctx' = InitCtx(raw)
            /\ cur' = "resolver_branch"
            /\ stack' = <<>>
            /\ pending_error' = None
            /\ pc' = "idle"
            /\ result' = NoResult
       ELSE /\ pc' = "failed"
            /\ result' = Raised("TypeError: unexpected keyword argument")
            /\ UNCHANGED <<cur, stack, ctx, pending_error>>
    /\ UNCHANGED <<event, prev>>
    /\ UNCHANGED <<flows, other>>

New == \E raw \in InitialContexts, start \in StartArgs : __init__(raw, start)

NextNew == New \/ Next

SpecNew == NoSession /\ [][NextNew]_vars

\* C12: a session constructed with a starting state id exists and its
\* current state is that state until the first call of step dispatches it.
C12_StartsAtGivenState ==
    (input.kind = "new" /\ input.type \notin {NotPassed, None})
        => (pc = "idle" /\ cur = input.type)

----------------------------------------------------------------------------
\* _next called on its own, on a session that is between two calls of step,
\* for the current state and any key.

\* The keys _next is called with: event keys and values of switch expressions.
ResolveKeys == EventKeys \cup {"password", "sso", "loop"}
\* What _next returns: the pair (target_state, set_ctx_data).
Resolved(n) ==
    [kind |-> "resolved",
     payload |-> ("target" :> n.target) @@ ("set_context" :> n.set_context),
     msg |-> None]

Resolve(key) ==
    /\ pc = "idle"
    /\ LET n == _next(cur, key, pending_error) IN
       /\ pending_error' = n.pending_error
       /\ result' = Resolved(n)
    /\ pc' = "resolved"
    /\ input' = KeyEvent(key)
    /\ prev' = result
    /\ UNCHANGED <<cur, stack, ctx, event>>
    /\ UNCHANGED <<flows, other>>

ResolveAny == \E key \in ResolveKeys : Resolve(key)

NextResolve == Next \/ ResolveAny

\* Runs of step that end with one direct call of _next.
SpecResolve == Init /\ [][NextResolve]_vars

\* C14 as stated: resolving a transition changes no field of the session.
C14_ResolveChangesNothing ==
    [][ (pc = "idle" /\ pc' = "resolved") => UNCHANGED session ]_vars

\* C14, amended: resolving a transition returns the edge's target and patch
\* and changes no field of the session other than the pending error tag; the
\* tag is left as it was when there is no edge or the edge is a bare target,
\* and is overwritten with the descriptor's error tag (absent when the
\* descriptor has none) when the edge is a descriptor.
C14_ResolveChangesOnlyPendingError ==
    [][ (pc = "idle" /\ pc' = "resolved")
        => LET ent == TransGet(cur, input'.type) IN
           /\ UNCHANGED <<cur, stack, ctx>>
           /\ result'.payload.target = ent.target
           /\ result'.payload.set_context = ent.set_context
           /\ pending_error' = IF ent.found /\ ent.dict
                               THEN ent.error_id
                               ELSE pending_error
      ]_vars

\* A descriptor edge was resolved and its error tag is pending; and a bare
\* edge was resolved while a tag was pending.
C14_Witness ==
    /\ pc = "resolved"
    /\ \/ /\ cur = "resolveUsernameAction" /\ input.type = "none"
          /\ pending_error = "unknown_user"
       \/ /\ cur = "sendResetAction" /\ input.type = "sent"
          /\ pending_error = "reset_requested"

----------------------------------------------------------------------------
\* Two sessions of one process: they share the loaded flow definition and
\* nothing else.  The variables of the session hold the one that runs, other
\* holds the one that waits, and Swap hands the processor to the one that
\* waits, between two calls or between two iterations of a call.

TwoContexts ==
    { ("resolver_match" :> "exact") @@ ("login_method" :> "password"),
      ("resolver_match" :> "Exact") @@ ("login_method" :> "SSO") }
TwoInputs == {NoEvent} \cup
    {KeyEvent(k) : k \in {"submitPassword", "failure", "locked",
                          "contactSupport", "continue"}}

InitTwo ==
    /\ flows = MemberLists
    /\ \E raw \in TwoContexts : ctx = InitCtx(raw)
    /\ cur = "resolver_branch" /\ stack = <<>> /\ pending_error = None
    /\ pc = "idle" /\ event = NoEvent /\ input = NoEvent
    /\ result = NoResult /\ prev = NoResult
    /\ \E raw \in TwoContexts :
          other = Parked("resolver_branch", <<>>, InitCtx(raw), None, "idle",
                         NoEvent, NoEvent, NoResult, NoResult)

Swap ==
    /\ other.pc # "absent"
    /\ other' = Self
    /\ cur' = other.cur /\ stack' = other.stack /\ ctx' = other.ctx
    /\ pending_error' = other.pending_error
    /\ pc' = other.pc /\ event' = other.event /\ input' = other.input
    /\ result' = other.result /\ prev' = other.prev
    /\ UNCHANGED flows

StepTwo == \E e \in TwoInputs : Call(e)

NextTwo ==
    \/ StepTwo
    \/ SwitchIter
    \/ ActionIter
    \/ SubflowIter
    \/ ViewIter
    \/ UnknownType
    \/ Swap

SpecTwo == InitTwo /\ [][NextTwo]_vars

\* C15: under every interleaving of two sessions that share the flow
\* definition, a step of the running session leaves every field of the
\* waiting session as it was (current state, stack, context, pending error
\* tag, and what its caller holds), handing over the processor only
\* exchanges the two, and no step changes the member lists of the flow
\* definition.
C15_SessionsIsolated ==
    [][ /\ flows' = MemberLists
        /\ \/ other' = other
           \/ other' = Self /\ Self' = other
      ]_vars

\* Both sessions have entered sub-flows from the shared member lists and
\* stand at different states with different stacks.
C15_Witness ==
    /\ pc = "idle" /\ other.pc = "idle"
    /\ cur = "AccountLockedView" /\ Len(stack) = 2
    /\ other.cur = "SSORedirectView" /\ Len(other.stack) = 1

----------------------------------------------------------------------------
\* A call of step keeps running: once step is called, the interpreter
\* executes the next iteration of `while self.cur` as long as there is one.
\* Nothing obliges the caller to call step again.
Iterate == SwitchIter \/ ActionIter \/ SubflowIter \/ ViewIter \/ UnknownType

SpecFair == Init /\ [][Next]_vars /\ WF_vars(Iterate)

\* The call stands at a sub-flow state with MaxStack frames on the stack: the
\* program would push one more frame, the model stops here.
AtStackBound ==
    /\ pc = "loop" /\ cur # None /\ StateType(cur) = "sub-flow"
    /\ Len(stack) >= MaxStack

\* C16: every call of step ends: a call in progress eventually returns a
\* payload, returns the finished marker or raises (or reaches the bound on
\* the stack depth, beyond which the model does not follow it).
C16_StepTerminates ==
    (pc = "loop") ~> (pc = "idle" \/ AtStackBound)

----------------------------------------------------------------------------
\* C17: an iteration at a switch state that has no edge for the context's
\* value of its expression (None when the context has no such key) ends the
\* call with the switch's error; the session stays at the switch with its
\* stack and context as they were, and nothing is returned.
C17_UnresolvedSwitchRaises ==
    [][ (AtSwitch /\ ~LookedUpEdge.found)
        => ( /\ pc' = "idle"
             /\ result' = Raised("No edge for value from switch")
             /\ UNCHANGED <<cur, stack, ctx>> )
      ]_vars

\* A call raised the switch's error at login_branch: once with no
\* login_method in the context, once with a value that has no edge.
C17_Witness ==
    /\ pc = "idle" /\ cur = "login_branch"
    /\ result = Raised("No edge for value from switch")
    /\ \/ "login_method" \notin DOMAIN ctx
       \/ "login_method" \in DOMAIN ctx /\ ctx["login_method"] = "otp"

----------------------------------------------------------------------------
\* C18: an iteration at a sub-flow state whose member list is empty ends the
\* call with an error and leaves the stack and the current state as they
\* were; with a non-empty member list it pushes the frame (sub-flow id, the
\* members after the first) and makes the first member the current state.
C18_EmptySubflowRejected ==
    [][ (pc = "loop" /\ cur # None /\ StateType(cur) = "sub-flow")
        => LET seq == STATES[cur].flow IN
           IF seq = <<>>
           THEN /\ pc' = "idle" /\ result'.kind = "raise"
                /\ stack' = stack /\ cur' = cur
           ELSE /\ stack' = Append(stack, [sub |-> cur, rest |-> Tail(seq)])
                /\ cur' = Head(seq)
      ]_vars

----------------------------------------------------------------------------
\* C19: the input of a call is the event of its first iteration only: every
\* iteration that continues the loop leaves no event for the ones after it,
\* and an iteration at an action or view that has no event returns that
\* state's payload and leaves the session there.  So a call makes at most
\* one transition on its input and returns at the first action or view it
\* reaches after it, with the payload's state id equal to cur.
C19_InputOfferedOnce ==
    [][ /\ (pc = "idle" /\ pc' = "loop") => (event' = input' /\ cur' = cur)
        /\ (pc = "loop" /\ pc' = "loop") => event' = NoEvent
        /\ ( /\ pc = "loop" /\ cur # None /\ event = NoEvent
             /\ StateType(cur) \in {"action", "view"} )
           => ( /\ pc' = "idle" /\ result'.kind = "payload"
                /\ result'.payload.state_id = cur
                /\ cur' = cur )
      ]_vars

\* The first call was given an event key while the session stood at a
\* switch: the key was not offered to the view the call reached, whose
\* payload is returned.
C19_Witness ==
    /\ pc = "idle" /\ prev = NoResult /\ input.kind = "key"
    /\ IsViewPayload(result) /\ result.payload.state_id = cur
    /\ TransGet(cur, input.type).found

----------------------------------------------------------------------------
\* C20: an iteration at a switch state that resolves its edge moves to the
\* edge's target with no error tag pending, whatever tag was pending before
\* the iteration and whatever tag the edge carries.
C20_SwitchClearsPendingError ==
    [][ (AtSwitch /\ LookedUpEdge.found /\ LookedUpEdge.target # None)
        => ( /\ pending_error' = None
             /\ cur' = LookedUpEdge.target
             /\ pc' = "loop" )
      ]_vars

\* The failure edge of SSORedirectView set the tag sso_failed and led to the
\* switch login_branch; the view reached behind the switch shows no tag.
C20_Witness ==
    /\ pc = "idle" /\ input = KeyEvent("failure")
    /\ prev.kind = "payload" /\ prev.payload.state_id = "SSORedirectView"
    /\ cur = "PasswordEntryView"
    /\ IsViewPayload(result) /\ ~HasErrorTag(result)
    /\ pending_error = None

----------------------------------------------------------------------------
\* _pop_subflow called on its own, on a session that is between two calls of
\* step (step itself never calls it).

\* Faulty variant of PopFrames: the member that becomes current stays in the
\* frame.
RECURSIVE PopFramesKeepsMember(_)
PopFramesKeepsMember(st) ==
    IF st = <<>>
    THEN [stack |-> <<>>, cur |-> None]
    ELSE LET top == st[Len(st)] IN
         IF top.rest # <<>>
         THEN [stack |-> st, cur |-> Head(top.rest)]
         ELSE PopFramesKeepsMember(SubSeq(st, 1, Len(st) - 1))

\* The loop of _pop_subflow on stack st: the stack and the current state it
\* leaves.  `rest.pop(0)` shortens the list held by the top frame in place.
RECURSIVE PopFrames(_)
PopFrames(st) ==
    IF st = <<>>
    THEN [stack |-> <<>>, cur |-> None]
    ELSE LET top == st[Len(st)] IN
         IF top.rest # <<>>
         THEN [stack |-> [st EXCEPT ![Len(st)].rest = Tail(@)],
               cur |-> Head(top.rest)]
         ELSE PopFrames(SubSeq(st, 1, Len(st) - 1))

PopCall == [kind |-> "pop", type |-> None, context |-> <<>>]

_pop_subflow ==
    /\ pc = "idle"
    /\ stack' = PopFrames(stack).stack
    /\ cur' = PopFrames(stack).cur
    /\ input' = PopCall
    /\ prev' = result
    /\ result' = NoResult
    /\ UNCHANGED <<ctx, pending_error, pc, event>>
    /\ UNCHANGED <<flows, other>>

NextPop == Next \/ _pop_subflow \/ Finished

\* Runs of step with calls of _pop_subflow between them.
SpecPop == Init /\ [][NextPop]_vars

\* The frames of the stack that still have members, by index.
WithMembers == {i \in DOMAIN stack : stack[i].rest # <<>>}
TopmostWithMembers == CHOOSE i \in WithMembers : \A j \in WithMembers : j <= i

\* C21: _pop_subflow on any stack drops the frames above the topmost frame
\* that has members left, takes the first of those members out of that frame
\* and makes it the current state, and leaves the frames below as they are;
\* on a stack without such a frame it empties the stack and leaves no current
\* state.  With no current state every call of step returns the finished
\* marker and changes nothing, and the session stays without a current state.
C21_PopAdvancesOrFinishes ==
    [][ /\ (input' = PopCall /\ pc = "idle" /\ pc' = "idle")
           => IF WithMembers # {}
              THEN LET i == TopmostWithMembers IN
                   /\ cur' = Head(stack[i].rest)
                   /\ Len(stack') = i
                   /\ stack'[i] = [sub |-> stack[i].sub,
                                   rest |-> Tail(stack[i].rest)]
                   /\ \A j \in 1..(i - 1) : stack'[j] = stack[j]
              ELSE stack' = <<>> /\ cur' = None
        /\ (pc = "loop" /\ cur = None)
           => (pc' = "idle" /\ result' = FinishedResult /\ UNCHANGED session)
        /\ (cur = None) => (cur' = None /\ stack' = stack)
      ]_vars

\* A call of _pop_subflow, made after the entry into the empty sub-flow
\* raised, dropped that sub-flow's frame and advanced in the frame below it.
C21_Witness ==
    /\ pc = "idle" /\ input = PopCall
    /\ prev = Raised("IndexError: list index out of range")
    /\ stack = << [sub |-> "password_flow", rest |-> <<"LoggedInView">>] >>
    /\ cur = "verifyPasswordAction"

\* The session has finished and a call of step returned the finished marker.
C21_WitnessFinished ==
    pc = "idle" /\ cur = None /\ stack = <<>> /\ result = FinishedResult

----------------------------------------------------------------------------
\* Calls of step whose caller keeps a copy of the session as it is when the
\* call is made (other holds the copy), to compare the session with after
\* the call.
CallKeepingCopy(e) ==
    /\ pc = "idle"
    /\ pc' = "loop"
    /\ event' = e
    /\ input' = e
    /\ prev' = result
    /\ other' = Self
    /\ UNCHANGED <<cur, stack, ctx, pending_error, result, flows>>

StepKeepingCopy == \E e \in Inputs : CallKeepingCopy(e)

NextCopy ==
    \/ StepKeepingCopy
    \/ SwitchIter
    \/ ActionIter
    \/ SubflowIter
    \/ ViewIter
    \/ UnknownType

SpecCopy == Init /\ [][NextCopy]_vars

\* The last call raised because the event key it was given has no edge from
\* the action or view the session stood at when the call was made.
RaisedForMissingEvent ==
    /\ pc = "idle" /\ result.kind = "raise" /\ input.kind = "key"
    /\ other.cur # None /\ StateType(other.cur) \in {"action", "view"}
    /\ ~TransGet(other.cur, input.type).found
\* The last call raised because the switch it reached has no edge for the
\* context's value of its expression.
RaisedForMissingSwitchEdge ==
    /\ pc = "idle" /\ result = Raised("No edge for value from switch")
    /\ ~TransGet(cur, IF STATES[cur].expression \in DOMAIN ctx
                      THEN ctx[STATES[cur].expression] ELSE None).found

\* C22: after a call of step that raised for a missing event key or a
\* missing switch edge, the session is as it was when the call was made:
\* same current state, stack, context and pending error tag.
C22_RaiseLeavesSessionUnchanged ==
    (RaisedForMissingEvent \/ RaisedForMissingSwitchEdge)
        => ( /\ cur = other.cur
             /\ stack = other.stack
             /\ ctx = other.ctx
             /\ pending_error = other.pending_error )

====
